---- MODULE Spec2Model ----
(***************************************************************************)
(* Decision-and-reputation engine of the Gmail cleanup agent:              *)
(* gmail_agent/classifier.py (safety filter, decision engine),             *)
(* gmail_agent/storage.py (sender reputation store),                       *)
(* gmail_agent/actions.py (action executor), gmail_agent/llm_service.py     *)
(* (classification) and the message loop of main.py; further, processes    *)
(* that follow one another on the same senders file, and two callers       *)
(* inside Storage.update_sender at once.                                   *)
(*                                                                         *)
(* Python strings are sequences of one-character strings, so that lower(), *)
(* capitalize(), split('@') and the substring operator `in` are computed   *)
(* character by character.  Confidences are hundredths (0.80 is 80).       *)
(***************************************************************************)
EXTENDS Integers, Sequences, FiniteSets, TLC

VARIABLES
    data,        \* Storage.data: sender address -> sender entry (in memory)
    disk,        \* SENDERS_FILE: <<"missing">>, <<"corrupt">>, <<"undecodable">>, <<"json", d>>
    clock,       \* datetime.now(), counted in ticks
    dry_run,     \* ActionHandler.dry_run
    calls,       \* adapter calls issued by the handler invocation last run
    log,         \* logger records emitted by the handler invocation last run
    result,      \* the handler last run, its arguments and what it returned
    promotions,  \* per sender: how many update_sender calls returned True
    labeled,     \* senders a message of which had add_label / archive_message called
    threads,     \* callers running inside update_sender, each with its position and locals
    messages,    \* main: the ids gmail.list_messages returned
    idx,         \* main: number of messages of the list already handled
    pc           \* which program runs and where it is; main: "loop", then "done"

vars ==
    <<data, disk, clock, dry_run, calls, log, result, promotions, labeled, threads,
      messages, idx, pc>>

----------------------------------------------------------------------------
(* Bounds of the model *)

MaxAddrLen == 5
MaxConfidence == 100
MaxUpdates == 4
MaxMessages == 4

----------------------------------------------------------------------------
(* Characters and the str methods the code uses *)

Uppers == <<"A","B","C","D","E","F","G","H","I","J","K","L","M",
            "N","O","P","Q","R","S","T","U","V","W","X","Y","Z">>
Lowers == <<"a","b","c","d","e","f","g","h","i","j","k","l","m",
            "n","o","p","q","r","s","t","u","v","w","x","y","z">>

UpperSet == {Uppers[i] : i \in 1..26}
LowerSet == {Lowers[i] : i \in 1..26}
LowerOf == [c \in UpperSet |-> Lowers[CHOOSE i \in 1..26 : Uppers[i] = c]]
UpperOf == [c \in LowerSet |-> Uppers[CHOOSE i \in 1..26 : Lowers[i] = c]]

LowerChar(c) == IF c \in UpperSet THEN LowerOf[c] ELSE c
UpperChar(c) == IF c \in LowerSet THEN UpperOf[c] ELSE c

\* name = value, then body: the value is computed once and bound to the name
Bind(value, body(_)) == CHOOSE out \in {body(name) : name \in {value}} : TRUE

\* str.lower()
lower(s) == [i \in 1..Len(s) |-> LowerChar(s[i])]

\* str.upper()
upper(s) == [i \in 1..Len(s) |-> UpperChar(s[i])]

\* str.capitalize(): first character upper-cased, the rest lower-cased
capitalize(s) ==
    [i \in 1..Len(s) |-> IF i = 1 THEN UpperChar(s[i]) ELSE LowerChar(s[i])]

\* needle in hay (substring test)
contains(hay, needle) ==
    \E i \in 0..(Len(hay) - Len(needle)) :
        \A k \in 1..Len(needle) : hay[i + k] = needle[k]

\* str.split(sep) for a one-character separator
RECURSIVE split(_, _)
split(s, sep) ==
    IF \A i \in 1..Len(s) : s[i] # sep
    THEN <<s>>
    ELSE LET i == CHOOSE k \in 1..Len(s) :
                      s[k] = sep /\ \A j \in 1..(k - 1) : s[j] # sep
         IN  <<SubSeq(s, 1, i - 1)>> \o split(SubSeq(s, i + 1, Len(s)), sep)

\* seq[-1]
last(seq) == seq[Len(seq)]

\* for x in seq: if P(x): ... -- the index of the first match from i on, or 0
RECURSIVE FirstMatchFrom(_, _, _)
FirstMatchFrom(seq, P(_), i) ==
    IF i > Len(seq) THEN 0
    ELSE IF P(seq[i]) THEN i
    ELSE FirstMatchFrom(seq, P, i + 1)

FirstMatch(seq, P(_)) == FirstMatchFrom(seq, P, 1)

SPACE == <<" ">>
AT == "@"

----------------------------------------------------------------------------
(* gmail_agent/config.py *)

CONFIDENCE_ARCHIVE == 80
CONFIDENCE_REVIEW == 55
TRUSTED_SENDER_THRESHOLD == 3

PROTECTED_DOMAINS ==
    << <<"g","o","o","g","l","e",".","c","o","m">>,
       <<"a","p","p","l","e",".","c","o","m">>,
       <<"a","m","a","z","o","n",".","c","o","m">>,
       <<"m","i","c","r","o","s","o","f","t",".","c","o","m">>,
       <<"g","o","v">>,
       <<"e","d","u">>,
       <<"m","i","l">>,
       <<"c","h","a","s","e",".","c","o","m">>,
       <<"b","a","n","k","o","f","a","m","e","r","i","c","a",".","c","o","m">>,
       <<"w","e","l","l","s","f","a","r","g","o",".","c","o","m">>,
       <<"c","i","t","i",".","c","o","m">>,
       <<"a","m","e","x",".","c","o","m">>,
       <<"s","t","r","i","p","e",".","c","o","m">>,
       <<"p","a","y","p","a","l",".","c","o","m">>,
       <<"l","i","n","k","e","d","i","n",".","c","o","m">>,
       <<"g","i","t","h","u","b",".","c","o","m">>,
       <<"g","i","t","l","a","b",".","c","o","m">> >>

PROTECTED_KEYWORDS ==
    << <<"o","f","f","e","r"," ","l","e","t","t","e","r">>,
       <<"i","n","t","e","r","v","i","e","w">>,
       <<"i","n","v","o","i","c","e">>,
       <<"p","a","y","m","e","n","t">>,
       <<"r","e","c","e","i","p","t">>,
       <<"s","e","c","u","r","i","t","y"," ","a","l","e","r","t">>,
       <<"v","e","r","i","f","i","c","a","t","i","o","n"," ","c","o","d","e">>,
       <<"p","a","s","s","w","o","r","d"," ","r","e","s","e","t">>,
       <<"t","a","x">>,
       <<"l","e","g","a","l">>,
       <<"c","o","n","t","r","a","c","t">>,
       <<"a","g","r","e","e","m","e","n","t">> >>

(* gmail_agent/storage.py *)
MARKETING_TYPES ==
    << <<"N","E","W","S","L","E","T","T","E","R">>,
       <<"P","R","O","M","O","T","I","O","N">>,
       <<"C","O","U","R","S","E">>,
       <<"O","U","T","R","E","A","C","H">> >>

----------------------------------------------------------------------------
(* String literals of the code and of its tests *)

S_IMPORTANT == <<"I","M","P","O","R","T","A","N","T">>
S_NEWSLETTER == <<"N","E","W","S","L","E","T","T","E","R">>
S_PROMOTION == <<"P","R","O","M","O","T","I","O","N">>
S_COURSE == <<"C","O","U","R","S","E">>
S_OUTREACH == <<"O","U","T","R","E","A","C","H">>
S_SPAM == <<"S","P","A","M">>
S_ARCHIVE == <<"A","R","C","H","I","V","E">>
S_REVIEW == <<"R","E","V","I","E","W">>
S_SKIP == <<"S","K","I","P">>
S_AUTO == <<"A","U","T","O","/">>
A_google == <<"s","u","p","p","o","r","t","@","g","o","o","g","l","e",".","c","o","m">>
A_marketing == <<"n","e","w","s","l","e","t","t","e","r","@","m","a","r","k","e","t","i","n","g",".","c","o","m">>
A_news == <<"n","e","w","s","@","m","a","r","k","e","t","i","n","g",".","c","o","m">>
A_brand == <<"p","r","o","m","o","@","b","r","a","n","d",".","c","o","m">>
A_unknown == <<"U","n","k","n","o","w","n">>
A_accounts == <<"n","o","-","r","e","p","l","y","@","a","c","c","o","u","n","t","s",".","g","o","o","g","l","e",".","c","o","m">>
A_billing == <<"b","i","l","l","i","n","g","@","s","e","r","v","i","c","e",".","c","o","m">>
A_chase == <<"a","l","e","r","t","s","@","c","h","a","s","e",".","c","o","m">>
A_upper == <<"D","e","a","n","@","M","I","T",".","E","D","U">>
A_education == <<"h","i","@","e","d","u","c","a","t","i","o","n",".","i","o">>
A_localedu == <<"e","d","u","@","s","h","o","p",".","c","o","m">>
A_twoats == <<"a","@","e","d","u","@","s","h","o","p",".","c","o","m">>
A_twoats2 == <<"a","@","s","h","o","p",".","c","o","m","@","x",".","g","o","v">>
T_newsletter == <<"W","e","e","k","l","y"," ","N","e","w","s","l","e","t","t","e","r">>
T_check == <<"C","h","e","c","k"," ","t","h","i","s"," ","o","u","t">>
T_invoice == <<"Y","o","u","r"," ","I","n","v","o","i","c","e">>
T_attached == <<"P","l","e","a","s","e"," ","f","i","n","d"," ","a","t","t","a","c","h","e","d">>
T_alert == <<"S","e","c","u","r","i","t","y"," ","A","l","e","r","t">>
T_signin == <<"N","e","w"," ","s","i","g","n","-","i","n"," ","d","e","t","e","c","t","e","d">>
T_offer == <<"L","i","m","i","t","e","d"," ","T","i","m","e"," ","O","f","f","e","r">>
T_half == <<"5","0","%"," ","o","f","f"," ","e","v","e","r","y","t","h","i","n","g">>
N_news == <<"N","e","w","s","l","e","t","t","e","r"," ","<","n","e","w","s","@","m","a","r","k","e","t","i","n","g",".","c","o","m",">">>
N_google == <<"G","o","o","g","l","e"," ","<","n","o","-","r","e","p","l","y","@","a","c","c","o","u","n","t","s",".","g","o","o","g","l","e",".","c","o","m",">">>
N_billing == <<"B","i","l","l","i","n","g"," ","<","b","i","l","l","i","n","g","@","s","e","r","v","i","c","e",".","c","o","m",">">>
N_unknown == <<"U","n","k","n","o","w","n">>
S_DELETE == <<"D","E","L","E","T","E">>
L_Newsletter == <<"A","U","T","O","/","N","e","w","s","l","e","t","t","e","r">>
L_Promotion == <<"A","U","T","O","/","P","r","o","m","o","t","i","o","n">>
S_newsletter == <<"n","e","w","s","l","e","t","t","e","r">>
S_important == lower(S_IMPORTANT)
S_empty == <<>>
T_joboffer == <<"J","o","b"," ","O","f","f","e","r">>
T_letter == <<"L","e","t","t","e","r"," ","e","n","c","l","o","s","e","d">>
T_login == <<"L","o","g"," ","i","n">>
T_voice == <<"v","o","i","c","e"," ","m","a","i","l">>
T_taxform == <<"T","A","X"," ","F","O","R","M">>

----------------------------------------------------------------------------
(* gmail_agent/classifier.py *)

\* is_safe_sender comparing the domain with the protected entries for equality
is_safe_sender_exact(sender_email) ==
    IF sender_email = <<>> \/ ~(\E i \in 1..Len(sender_email) : sender_email[i] = AT)
    THEN [ret |-> FALSE, log |-> <<>>]
    ELSE Bind(lower(last(split(sender_email, AT))), LAMBDA domain :
             IF \E n \in 1..Len(PROTECTED_DOMAINS) : PROTECTED_DOMAINS[n] = domain
             THEN [ret |-> TRUE,
                   log |-> << <<"info", "protected_domain", domain, sender_email>> >>]
             ELSE [ret |-> FALSE, log |-> <<>>])

\* Classifier.is_safe_sender: [ret, log]
is_safe_sender(sender_email) ==
    IF sender_email = <<>> \/ ~(\E i \in 1..Len(sender_email) : sender_email[i] = AT)
    THEN [ret |-> FALSE, log |-> <<>>]
    ELSE Bind(lower(last(split(sender_email, AT))), LAMBDA domain :
             IF FirstMatch(PROTECTED_DOMAINS, LAMBDA p : contains(domain, p)) # 0
             THEN [ret |-> TRUE,
                   log |-> << <<"info", "protected_domain", domain, sender_email>> >>]
             ELSE [ret |-> FALSE, log |-> <<>>])

\* is_safe_content searching the text as it was written, not lower-cased
is_safe_content_cased(subject, snippet) ==
    Bind(subject \o SPACE \o snippet, LAMBDA text :
    Bind(FirstMatch(PROTECTED_KEYWORDS, LAMBDA k : contains(text, k)), LAMBDA hit :
        IF hit # 0
        THEN [ret |-> TRUE,
              log |-> << <<"info", "protected_keyword", PROTECTED_KEYWORDS[hit]>> >>]
        ELSE [ret |-> FALSE, log |-> <<>>]))

\* Classifier.is_safe_content: [ret, log]
is_safe_content(subject, snippet) ==
    Bind(lower(subject \o SPACE \o snippet), LAMBDA text :
    Bind(FirstMatch(PROTECTED_KEYWORDS, LAMBDA k : contains(text, k)), LAMBDA hit :
        IF hit # 0
        THEN [ret |-> TRUE,
              log |-> << <<"info", "protected_keyword", PROTECTED_KEYWORDS[hit]>> >>]
        ELSE [ret |-> FALSE, log |-> <<>>]))

\* determine_action with exclusive thresholds
determine_action_strict(classification, confidence) ==
    IF classification = S_IMPORTANT THEN S_SKIP
    ELSE IF confidence > CONFIDENCE_ARCHIVE THEN S_ARCHIVE
    ELSE IF confidence > CONFIDENCE_REVIEW THEN S_REVIEW
    ELSE S_SKIP

\* Classifier.determine_action
determine_action(classification, confidence) ==
    IF classification = S_IMPORTANT THEN S_SKIP
    ELSE IF confidence >= CONFIDENCE_ARCHIVE THEN S_ARCHIVE
    ELSE IF confidence >= CONFIDENCE_REVIEW THEN S_REVIEW
    ELSE S_SKIP

----------------------------------------------------------------------------
(* Inputs of the classifier's functions *)

AddrAlphabet == {"@", "e", "d", "u", "E"}

NamedAddresses ==
    {A_google, A_marketing, A_news, A_brand, A_unknown, A_accounts, A_billing,
     A_chase, A_upper, A_education, A_localedu, A_twoats, A_twoats2, S_empty}

Addresses ==
    NamedAddresses \cup UNION {[1..k -> AddrAlphabet] : k \in 0..MaxAddrLen}

Subjects ==
    {T_newsletter, T_invoice, T_alert, T_offer, T_joboffer, T_login, T_taxform, S_empty}
Snippets == {T_check, T_attached, T_signin, T_half, T_letter, T_voice, S_empty}

Classifications ==
    {S_IMPORTANT, S_NEWSLETTER, S_PROMOTION, S_COURSE, S_OUTREACH, S_SPAM,
     S_important, S_empty}

Confidences == 0..MaxConfidence

NoStore == <<>>
NoThreads == <<>>
Pending == <<>>

\* Everything but the pending call: no store, no calls made, nothing logged.
Idle ==
    /\ data = NoStore
    /\ disk = <<"missing">>
    /\ clock = 0
    /\ dry_run = FALSE
    /\ calls = <<>>
    /\ log = <<>>
    /\ promotions = NoStore
    /\ messages = <<>>
    /\ idx = 0
    /\ labeled = {}
    /\ threads = NoThreads

\* One call of a function of Classifier is about to be made with some arguments.
InitClassifier ==
    /\ Idle
    /\ pc = "call"
    /\ \/ \E a \in Addresses :
            result = [op |-> "is_safe_sender", args |-> <<a>>, ret |-> Pending]
       \/ \E s \in Subjects, n \in Snippets :
            result = [op |-> "is_safe_content", args |-> <<s, n>>, ret |-> Pending]
       \/ \E c \in Classifications, conf \in Confidences :
            result = [op |-> "determine_action", args |-> <<c, conf>>, ret |-> Pending]

\* the call of Classifier.is_safe_sender returns
IsSafeSender ==
    /\ pc = "call" /\ result.op = "is_safe_sender"
    /\ LET r == is_safe_sender(result.args[1])
       IN  /\ result' = [result EXCEPT !.ret = r.ret]
           /\ log' = r.log
    /\ pc' = "return"
    /\ UNCHANGED <<data, disk, clock, dry_run, calls, promotions, messages, idx, labeled, threads>>

\* the call of Classifier.is_safe_content returns
IsSafeContent ==
    /\ pc = "call" /\ result.op = "is_safe_content"
    /\ LET r == is_safe_content(result.args[1], result.args[2])
       IN  /\ result' = [result EXCEPT !.ret = r.ret]
           /\ log' = r.log
    /\ pc' = "return"
    /\ UNCHANGED <<data, disk, clock, dry_run, calls, promotions, messages, idx, labeled, threads>>

\* the call of Classifier.determine_action returns
DetermineAction ==
    /\ pc = "call" /\ result.op = "determine_action"
    /\ result' = [result EXCEPT !.ret = determine_action(result.args[1], result.args[2])]
    /\ pc' = "return"
    /\ UNCHANGED <<data, disk, clock, dry_run, calls, log, promotions, messages, idx, labeled, threads>>

NextClassifier == IsSafeSender \/ IsSafeContent \/ DetermineAction

SpecClassifier == InitClassifier /\ [][NextClassifier]_vars

----------------------------------------------------------------------------
(* gmail_agent/storage.py *)

\* dict.get(key, default)
get(d, key, default) == IF key \in DOMAIN d THEN d[key] ELSE default

\* d[key] = value
put(d, key, value) == [k \in DOMAIN d \cup {key} |-> IF k = key THEN value ELSE d[k]]

\* x in MARKETING_TYPES
in_marketing_types(classification) ==
    \E i \in 1..Len(MARKETING_TYPES) : MARKETING_TYPES[i] = classification

\* sum(classifications.get(t, 0) for t in MARKETING_TYPES)
RECURSIVE sum_marketing(_, _)
sum_marketing(classifications, i) ==
    IF i > Len(MARKETING_TYPES) THEN 0
    ELSE get(classifications, MARKETING_TYPES[i], 0)
             + sum_marketing(classifications, i + 1)

\* datetime.now().isoformat(): the text of a time; "" is the empty text
isoformat(now) == <<now>>

\* json.dump writing every sender as not trusted
json_dump_untrusted(d) ==
    {<<k, <<d[k].domain,
            {<<c, d[k].classifications[c]>> : c \in DOMAIN d[k].classifications},
            d[k].last_seen,
            FALSE>> >> : k \in DOMAIN d}

\* json.dump(self.data, f): the file's text lists every key with its value
json_dump(d) ==
    {<<k, <<d[k].domain,
            {<<c, d[k].classifications[c]>> : c \in DOMAIN d[k].classifications},
            d[k].last_seen,
            d[k].trusted_marketing_source>> >> : k \in DOMAIN d}

\* json.load(f)
json_load(text) ==
    [k \in {p[1] : p \in text} |->
        LET v == (CHOOSE p \in text : p[1] = k)[2]
        IN  [domain |-> v[1],
             classifications |->
                 [c \in {q[1] : q \in v[2]} |-> (CHOOSE q \in v[2] : q[1] = c)[2]],
             last_seen |-> v[3],
             trusted_marketing_source |-> v[4]]]

\* Storage._load_data: [data, log, raises].  The file is missing; or its text is
\* not JSON ("corrupt": json.JSONDecodeError, caught); or its bytes are not
\* UTF-8 ("undecodable": f.read() raises UnicodeDecodeError, a ValueError that
\* is neither a JSONDecodeError nor an IOError, so it leaves the method); or it
\* holds the JSON text of a store.
_load_data(file) ==
    IF file[1] = "missing" THEN [data |-> NoStore, log |-> <<>>, raises |-> FALSE]
    ELSE IF file[1] = "corrupt"
    THEN [data |-> NoStore, log |-> << <<"error", "load_failed">> >>, raises |-> FALSE]
    ELSE IF file[1] = "undecodable"
    THEN [data |-> NoStore, log |-> <<>>, raises |-> TRUE]
    ELSE [data |-> json_load(file[2]), log |-> <<>>, raises |-> FALSE]

\* What can happen to open(file_path, 'w') followed by json.dump: both succeed;
\* open raises (the file is not touched); or open has truncated the file and
\* the write raises, leaving an incomplete text that no longer parses.
WriteOutcomes == {"ok", "open_fails", "write_fails"}

\* _save_data swallowing the IOError without logging it
_save_data_silent(d, file, outcome) ==
    IF outcome = "ok" THEN [disk |-> <<"json", json_dump(d)>>, log |-> <<>>]
    ELSE IF outcome = "open_fails" THEN [disk |-> file, log |-> <<>>]
    ELSE [disk |-> <<"corrupt">>, log |-> <<>>]

\* Storage._save_data: [disk, log]
_save_data(d, file, outcome) ==
    IF outcome = "ok" THEN [disk |-> <<"json", json_dump(d)>>, log |-> <<>>]
    ELSE IF outcome = "open_fails"
    THEN [disk |-> file, log |-> << <<"error", "save_failed">> >>]
    ELSE [disk |-> <<"corrupt">>, log |-> << <<"error", "save_failed">> >>]

\* the entry created with the domain as written in the address
new_entry_cased(sender_email) ==
    [domain |-> last(split(sender_email, AT)),
     classifications |-> <<>>,
     last_seen |-> <<>>,
     trusted_marketing_source |-> FALSE]

\* the entry created for a sender seen for the first time
new_entry(sender_email) ==
    [domain |-> lower(last(split(sender_email, AT))),
     classifications |-> <<>>,
     last_seen |-> <<>>,
     trusted_marketing_source |-> FALSE]

\* the upgrade with the threshold compared by > instead of >=
upgrade_strict(entry, classification) ==
    IF /\ in_marketing_types(classification)
       /\ sum_marketing(entry.classifications, 1) > TRUSTED_SENDER_THRESHOLD
    THEN [entry EXCEPT !.trusted_marketing_source = TRUE]
    ELSE entry

\* the trusted-status upgrade of update_sender
upgrade(entry, classification) ==
    IF /\ in_marketing_types(classification)
       /\ sum_marketing(entry.classifications, 1) >= TRUSTED_SENDER_THRESHOLD
    THEN [entry EXCEPT !.trusted_marketing_source = TRUE]
    ELSE entry

\* the return value without "and not was_trusted"
just_became_trusted_any(trusted, was_trusted) == trusted

\* the value update_sender returns: True only if the sender JUST became trusted
just_became_trusted(trusted, was_trusted) == trusted /\ ~was_trusted

\* Storage.update_sender: [data, disk, log, ret]
update_sender(d, file, now, sender_email, classification, outcome) ==
    LET d1 == IF sender_email \in DOMAIN d THEN d
              ELSE put(d, sender_email, new_entry(sender_email))
        e1 == [d1[sender_email] EXCEPT !.last_seen = isoformat(now)]
        current_count == get(e1.classifications, classification, 0)
    IN  Bind([e1 EXCEPT !.classifications = put(@, classification, current_count + 1)],
             LAMBDA e2 :
        Bind(upgrade(e2, classification), LAMBDA e3 :
        Bind(put(d1, sender_email, e3), LAMBDA d2 :
        Bind(_save_data(d2, file, outcome), LAMBDA saved :
             [data |-> d2,
              disk |-> saved.disk,
              log |-> saved.log,
              ret |-> just_became_trusted(e3.trusted_marketing_source,
                                          e2.trusted_marketing_source)]))))

\* is_trusted answering False for every sender
is_trusted_never(d, sender_email) == FALSE

\* Storage.is_trusted
is_trusted(d, sender_email) ==
    IF sender_email \in DOMAIN d THEN d[sender_email].trusted_marketing_source ELSE FALSE

\* Storage.get_sender_data; None is <<"None">>
None == <<"None">>
get_sender_data(d, sender_email) ==
    IF sender_email \in DOMAIN d THEN d[sender_email] ELSE None

----------------------------------------------------------------------------
(* A process that constructs a Storage and calls its methods in any order *)

\* promo@brand.com receives every classification, Dean@MIT.EDU promotions only,
\* "Unknown" (an address without '@') newsletters only; news@marketing.com is
\* never updated.
StoreClasses == {S_IMPORTANT, S_NEWSLETTER, S_PROMOTION, S_COURSE, S_OUTREACH}
UpdateInputs ==
    ({A_brand} \X StoreClasses) \cup ({A_upper} \X {S_PROMOTION})
        \cup ({A_unknown} \X {S_NEWSLETTER})
StoreSenders == {in[1] : in \in UpdateInputs}
QuerySenders == {A_brand, A_news}
InitialFiles == {<<"missing">>, <<"corrupt">>}

\* Storage.__init__
InitStore ==
    /\ disk \in InitialFiles
    /\ data = _load_data(disk).data
    /\ log = _load_data(disk).log
    /\ clock = 0
    /\ dry_run = FALSE
    /\ calls = <<>>
    /\ result = [op |-> "__init__", args |-> <<>>, ret |-> None]
    /\ promotions = NoStore
    /\ messages = <<>>
    /\ idx = 0
    /\ labeled = {}
    /\ threads = NoThreads
    /\ pc = "store"

\* the count kept by an observer of update_sender's return values
count_promotion(p, sender_email, ret) ==
    put(p, sender_email, get(p, sender_email, 0) + (IF ret THEN 1 ELSE 0))

\* a call of Storage.update_sender
UpdateSender ==
    /\ pc = "store"
    /\ clock < MaxUpdates
    /\ \E in \in UpdateInputs, outcome \in WriteOutcomes :
       \E r \in {update_sender(data, disk, clock + 1, in[1], in[2], outcome)} :
          LET s == in[1]
              c == in[2]
          IN  /\ data' = r.data
              /\ disk' = r.disk
              /\ log' = r.log
              /\ result' = [op |-> "update_sender", args |-> <<s, c>>,
                            ret |-> r.ret]
              /\ promotions' = count_promotion(promotions, s, r.ret)
    /\ clock' = clock + 1
    /\ UNCHANGED <<dry_run, calls, messages, idx, pc, labeled, threads>>

\* a call of Storage.is_trusted
IsTrusted ==
    /\ pc = "store"
    /\ \E s \in QuerySenders :
          result' = [op |-> "is_trusted", args |-> <<s>>, ret |-> is_trusted(data, s)]
    /\ log' = <<>>
    /\ UNCHANGED <<data, disk, clock, dry_run, calls, promotions, messages, idx, pc, labeled, threads>>

\* a call of Storage.get_sender_data
GetSenderData ==
    /\ pc = "store"
    /\ \E s \in QuerySenders :
          result' = [op |-> "get_sender_data", args |-> <<s>>,
                     ret |-> get_sender_data(data, s)]
    /\ log' = <<>>
    /\ UNCHANGED <<data, disk, clock, dry_run, calls, promotions, messages, idx, pc, labeled, threads>>

NextStore == UpdateSender \/ IsTrusted \/ GetSenderData

SpecStore == InitStore /\ [][NextStore]_vars

----------------------------------------------------------------------------
(* Processes that follow one another on the same SENDERS_FILE: each          *)
(* constructs a Storage as main does, calls its methods, and ends; what it   *)
(* held in memory is lost.                                                   *)

StartupFiles == InitialFiles \cup {<<"undecodable">>}

\* main.py:46 inside the try of main: [data, log, pc].  An exception raised by
\* Storage() is caught at main.py:94-96, logged as fatal, and the process exits.
startup(file) ==
    Bind(_load_data(file), LAMBDA loaded :
        IF loaded.raises
        THEN [data |-> NoStore, log |-> << <<"error", "fatal">> >>, pc |-> "exited"]
        ELSE [data |-> loaded.data, log |-> loaded.log, pc |-> "store"])

\* the first process starts on a file it did not write
InitRestart ==
    /\ disk \in StartupFiles
    /\ data = startup(disk).data
    /\ log = startup(disk).log
    /\ pc = startup(disk).pc
    /\ clock = 0
    /\ dry_run = FALSE
    /\ calls = <<>>
    /\ result = [op |-> "__init__", args |-> <<>>, ret |-> None]
    /\ promotions = NoStore
    /\ labeled = {}
    /\ threads = NoThreads
    /\ messages = <<>>
    /\ idx = 0

\* the process ends and the next one starts on the file as it is
Restart ==
    /\ pc \in {"store", "exited"}
    /\ \E s \in {startup(disk)} :
          /\ data' = s.data
          /\ log' = s.log
          /\ pc' = s.pc
    /\ result' = [op |-> "__init__", args |-> <<>>, ret |-> None]
    /\ UNCHANGED <<disk, clock, dry_run, calls, promotions, labeled, threads, messages, idx>>

NextRestart == Restart \/ UpdateSender \/ IsTrusted \/ GetSenderData

SpecRestart == InitRestart /\ [][NextRestart]_vars

----------------------------------------------------------------------------
(* Storage.update_sender called by two callers at once: each runs the        *)
(* statements of the method in order, one statement at a time, on the one    *)
(* Storage object; `entry` is a reference to the shared dict of the sender.  *)

Callers == {1, 2}
ThreadClasses == {S_IMPORTANT, S_PROMOTION, S_NEWSLETTER}

\* the store after n promotions of the sender were recorded and written
RECURSIVE stored_promotions(_, _)
stored_promotions(sender_email, n) ==
    IF n = 0 THEN [data |-> NoStore, disk |-> <<"missing">>]
    ELSE Bind(stored_promotions(sender_email, n - 1), LAMBDA before :
         Bind(update_sender(before.data, before.disk, 0, sender_email, S_PROMOTION, "ok"),
              LAMBDA after : [data |-> after.data, disk |-> after.disk]))

\* a caller about to run update_sender(sender_email, classification)
entering(sender_email, classification) ==
    [pc |-> "line55", sender_email |-> sender_email, classification |-> classification,
     current_count |-> 0, was_trusted |-> FALSE, in_sequence |-> FALSE,
     overlapped |-> FALSE]

\* lines 55-64: the entry is created if the sender is new; last_seen is set
enter_entry(d, now, sender_email) ==
    LET d1 == IF sender_email \in DOMAIN d THEN d
              ELSE put(d, sender_email, new_entry(sender_email))
    IN  put(d1, sender_email, [d1[sender_email] EXCEPT !.last_seen = isoformat(now)])

\* line 67: current_count = entry["classifications"].get(classification, 0)
read_count(d, sender_email, classification) ==
    get(d[sender_email].classifications, classification, 0)

\* line 68: entry["classifications"][classification] = current_count + 1
write_count(d, sender_email, classification, current_count) ==
    put(d, sender_email,
        [d[sender_email] EXCEPT !.classifications = put(@, classification, current_count + 1)])

\* was_trusted taken to be False without reading the entry
read_flag_unread(d, sender_email) == FALSE

\* line 71: was_trusted = entry["trusted_marketing_source"]
read_flag(d, sender_email) == d[sender_email].trusted_marketing_source

\* lines 73-76 on the shared entry
set_flag(d, sender_email, classification) ==
    put(d, sender_email, upgrade(d[sender_email], classification))

\* line 81: return entry["trusted_marketing_source"] and not was_trusted
return_value(d, sender_email, was_trusted) ==
    just_became_trusted(d[sender_email].trusted_marketing_source, was_trusted)

\* Two calls of update_sender for promo@brand.com are about to start; the
\* sender has 0 to MaxUpdates - 1 promotions on record.
InitThreads ==
    /\ \E n \in 0..(MaxUpdates - 1) :
          /\ data = stored_promotions(A_brand, n).data
          /\ disk = stored_promotions(A_brand, n).disk
    /\ threads \in [Callers -> {entering(A_brand, c) : c \in ThreadClasses}]
    /\ clock = 0
    /\ dry_run = FALSE
    /\ calls = <<>>
    /\ log = <<>>
    /\ result = [op |-> "__init__", args |-> <<>>, ret |-> None]
    /\ promotions = NoStore
    /\ labeled = {}
    /\ messages = <<>>
    /\ idx = 0
    /\ pc = "threads"

\* caller t moves to the statement at `to` with its locals changed as given
Goto(t, to, locals) == threads' = [threads EXCEPT ![t] = [locals EXCEPT !.pc = to]]

\* lines 55-64
EnterEntry(t) ==
    /\ pc = "threads" /\ threads[t].pc = "line55"
    /\ data' = enter_entry(data, clock + 1, threads[t].sender_email)
    /\ clock' = clock + 1
    /\ Goto(t, "line67", threads[t])
    /\ UNCHANGED <<disk, dry_run, calls, log, result, promotions, labeled, messages, idx, pc>>

\* line 67
ReadCount(t) ==
    /\ pc = "threads" /\ threads[t].pc = "line67"
    /\ Goto(t, "line68",
            [threads[t] EXCEPT !.current_count =
                read_count(data, threads[t].sender_email, threads[t].classification)])
    /\ UNCHANGED <<data, disk, clock, dry_run, calls, log, result, promotions, labeled,
                   messages, idx, pc>>

\* line 68
WriteCount(t) ==
    /\ pc = "threads" /\ threads[t].pc = "line68"
    /\ data' = write_count(data, threads[t].sender_email, threads[t].classification,
                           threads[t].current_count)
    /\ Goto(t, "line71", threads[t])
    /\ UNCHANGED <<disk, clock, dry_run, calls, log, result, promotions, labeled, messages,
                   idx, pc>>

\* line 71: the caller starts its read-modify-write sequence on the flag; it
\* notes whether another caller is inside its own sequence on the same sender
ReadFlag(t) ==
    /\ pc = "threads" /\ threads[t].pc = "line71"
    /\ Goto(t, "line73",
            [threads[t] EXCEPT
                !.was_trusted = read_flag(data, threads[t].sender_email),
                !.in_sequence = TRUE,
                !.overlapped =
                    \E u \in Callers \ {t} :
                        /\ threads[u].in_sequence
                        /\ threads[u].sender_email = threads[t].sender_email])
    /\ UNCHANGED <<data, disk, clock, dry_run, calls, log, result, promotions, labeled,
                   messages, idx, pc>>

\* lines 73-76
SetFlag(t) ==
    /\ pc = "threads" /\ threads[t].pc = "line73"
    /\ data' = set_flag(data, threads[t].sender_email, threads[t].classification)
    /\ Goto(t, "line78", threads[t])
    /\ UNCHANGED <<disk, clock, dry_run, calls, log, result, promotions, labeled, messages,
                   idx, pc>>

\* line 78
SaveData(t) ==
    /\ pc = "threads" /\ threads[t].pc = "line78"
    /\ \E outcome \in WriteOutcomes :
       \E saved \in {_save_data(data, disk, outcome)} :
          /\ disk' = saved.disk
          /\ log' = saved.log
    /\ Goto(t, "line81", threads[t])
    /\ UNCHANGED <<data, clock, dry_run, calls, result, promotions, labeled, messages, idx,
                   pc>>

\* line 81: the call returns and its read-modify-write sequence is over
Return(t) ==
    /\ pc = "threads" /\ threads[t].pc = "line81"
    /\ \E ret \in {return_value(data, threads[t].sender_email, threads[t].was_trusted)} :
          /\ result' = [op |-> "update_sender",
                        args |-> <<threads[t].sender_email, threads[t].classification>>,
                        ret |-> ret]
          /\ promotions' = count_promotion(promotions, threads[t].sender_email, ret)
    /\ Goto(t, "returned", [threads[t] EXCEPT !.in_sequence = FALSE])
    /\ UNCHANGED <<data, disk, clock, dry_run, calls, log, labeled, messages, idx, pc>>

NextThreads ==
    \E t \in Callers :
        \/ EnterEntry(t)
        \/ ReadCount(t)
        \/ WriteCount(t)
        \/ ReadFlag(t)
        \/ SetFlag(t)
        \/ SaveData(t)
        \/ Return(t)

SpecThreads == InitThreads /\ [][NextThreads]_vars

----------------------------------------------------------------------------
(* gmail_agent/actions.py *)

Call(op, args) == [op |-> op, args |-> args]

\* execute_action archiving every message it labels
execute_action_always_archive(dry, message_id, action, classification) ==
    LET label_name == S_AUTO \o capitalize(classification)
    IN  IF action = S_SKIP
        THEN [calls |-> <<>>, log |-> << <<"info", "skip", message_id>> >>]
        ELSE IF dry
        THEN [calls |-> <<>>,
              log |-> << <<"info", "dry_run_label", label_name, message_id>>,
                         <<"info", "dry_run_archive", message_id>> >>]
        ELSE [calls |-> <<Call("add_label", <<message_id, label_name>>),
                          Call("archive_message", <<message_id>>)>>,
              log |-> <<>>]

\* ActionHandler.execute_action: [calls, log]
execute_action(dry, message_id, action, classification) ==
    LET label_name == S_AUTO \o capitalize(classification)
    IN  IF action = S_SKIP
        THEN [calls |-> <<>>, log |-> << <<"info", "skip", message_id>> >>]
        ELSE IF dry
        THEN [calls |-> <<>>,
              log |-> << <<"info", "dry_run_label", label_name, message_id>> >>
                      \o (IF action = S_ARCHIVE
                          THEN << <<"info", "dry_run_archive", message_id>> >>
                          ELSE <<>>)]
        ELSE [calls |-> <<Call("add_label", <<message_id, label_name>>)>>
                        \o (IF action = S_ARCHIVE
                            THEN <<Call("archive_message", <<message_id>>)>>
                            ELSE <<>>),
              log |-> <<>>]

\* create_filter_if_trusted without its dry-run branch
create_filter_if_trusted_no_dry_run(dry, sender_email, classification, trusted) ==
    IF ~trusted THEN [calls |-> <<>>, log |-> <<>>]
    ELSE IF ~in_marketing_types(classification) THEN [calls |-> <<>>, log |-> <<>>]
    ELSE LET label_name == S_AUTO \o capitalize(classification)
         IN  [calls |-> <<Call("create_filter", <<sender_email, label_name>>)>>,
              log |-> << <<"info", "creating_filter", sender_email>> >>]

\* create_filter_if_trusted without the check of the marketing categories
create_filter_if_trusted_any_category(dry, sender_email, classification, trusted) ==
    IF ~trusted THEN [calls |-> <<>>, log |-> <<>>]
    ELSE LET label_name == S_AUTO \o capitalize(classification)
         IN  IF dry
             THEN [calls |-> <<>>,
                   log |-> << <<"info", "dry_run_filter", sender_email, label_name>> >>]
             ELSE [calls |-> <<Call("create_filter", <<sender_email, label_name>>)>>,
                   log |-> << <<"info", "creating_filter", sender_email>> >>]

\* ActionHandler.create_filter_if_trusted: [calls, log]
create_filter_if_trusted(dry, sender_email, classification, trusted) ==
    IF ~trusted THEN [calls |-> <<>>, log |-> <<>>]
    ELSE IF ~in_marketing_types(classification) THEN [calls |-> <<>>, log |-> <<>>]
    ELSE LET label_name == S_AUTO \o capitalize(classification)
         IN  IF dry
             THEN [calls |-> <<>>,
                   log |-> << <<"info", "dry_run_filter", sender_email, label_name>> >>]
             ELSE [calls |-> <<Call("create_filter", <<sender_email, label_name>>)>>,
                   log |-> << <<"info", "creating_filter", sender_email>> >>]

----------------------------------------------------------------------------
(* A process that constructs an ActionHandler and calls its methods in any order *)

MessageIds == 1..2
ActionNames == {S_ARCHIVE, S_REVIEW, S_SKIP, S_DELETE}
FilterSenders == {A_brand, A_google, A_unknown}

\* ActionHandler.__init__(gmail_service, dry_run)
InitActions ==
    /\ dry_run \in BOOLEAN
    /\ data = NoStore
    /\ disk = <<"missing">>
    /\ clock = 0
    /\ calls = <<>>
    /\ log = <<>>
    /\ result = [op |-> "__init__", args |-> <<>>, ret |-> None]
    /\ promotions = NoStore
    /\ messages = <<>>
    /\ idx = 0
    /\ labeled = {}
    /\ threads = NoThreads
    /\ pc = "actions"

\* a call of ActionHandler.execute_action
ExecuteAction ==
    /\ pc = "actions"
    /\ \E m \in MessageIds, a \in ActionNames, c \in Classifications :
          LET r == execute_action(dry_run, m, a, c)
          IN  /\ calls' = r.calls
              /\ log' = r.log
              /\ result' = [op |-> "execute_action", args |-> <<m, a, c>>, ret |-> None]
    /\ UNCHANGED <<data, disk, clock, dry_run, promotions, messages, idx, pc, labeled, threads>>

\* a call of ActionHandler.create_filter_if_trusted
CreateFilterIfTrusted ==
    /\ pc = "actions"
    /\ \E s \in FilterSenders, c \in Classifications, t \in BOOLEAN :
          LET r == create_filter_if_trusted(dry_run, s, c, t)
          IN  /\ calls' = r.calls
              /\ log' = r.log
              /\ result' = [op |-> "create_filter_if_trusted", args |-> <<s, c, t>>,
                            ret |-> None]
    /\ UNCHANGED <<data, disk, clock, dry_run, promotions, messages, idx, pc, labeled, threads>>

NextActions == ExecuteAction \/ CreateFilterIfTrusted

SpecActions == InitActions /\ [][NextActions]_vars

----------------------------------------------------------------------------
(* gmail_agent/llm_service.py *)

\* What the single requests.post and the parsing of its answer can yield: a
\* generation with a classification and a confidence (<<value>>, or Absent when
\* the key is missing), or one of the three kinds of failure the method catches.
Absent == <<>>
Some(v) == <<v>>
Generation(c, conf) == <<"ok", c, conf>>
LLMFailures == {<<"fail", "connection">>, <<"fail", "invalid_json">>, <<"fail", "unexpected">>}

Post == Call("requests.post", <<>>)

\* classify_email posting a second time when the first attempt failed
classify_email_retry(subject, snippet, sender, response) ==
    IF response[1] = "fail"
    THEN [ret |-> <<S_IMPORTANT, 0>>,
          calls |-> <<Post, Post>>,
          log |-> << <<"error", "llm_failed", response[2]>> >>]
    ELSE [ret |-> << upper(IF response[2] = Absent THEN S_IMPORTANT ELSE response[2][1]),
                     IF response[3] = Absent THEN 0 ELSE response[3][1] >>,
          calls |-> <<Post>>,
          log |-> <<>>]

\* LLMService.classify_email: [ret, calls, log]
classify_email(subject, snippet, sender, response) ==
    IF response[1] = "fail"
    THEN [ret |-> <<S_IMPORTANT, 0>>,
          calls |-> <<Post>>,
          log |-> << <<"error", "llm_failed", response[2]>> >>]
    ELSE [ret |-> << upper(IF response[2] = Absent THEN S_IMPORTANT ELSE response[2][1]),
                     IF response[3] = Absent THEN 0 ELSE response[3][1] >>,
          calls |-> <<Post>>,
          log |-> <<>>]

----------------------------------------------------------------------------
(* main.py *)

Details(subject, sender, email_address, snippet) ==
    [subject |-> subject, sender |-> sender, email_address |-> email_address,
     snippet |-> snippet]

\* the safety checks with the check of the content left out
safety_checks_sender_only(details) ==
    LET s == is_safe_sender(details.email_address)
    IN  IF s.ret
        THEN [skip |-> TRUE,
              log |-> s.log \o << <<"info", "skip_protected_sender", details.email_address>> >>]
        ELSE [skip |-> FALSE, log |-> <<>>]

\* main, "1. Safety Checks (Pre-LLM)": [skip, log]
safety_checks(details) ==
    LET s == is_safe_sender(details.email_address)
        c == is_safe_content(details.subject, details.snippet)
    IN  IF s.ret
        THEN [skip |-> TRUE,
              log |-> s.log \o << <<"info", "skip_protected_sender", details.email_address>> >>]
        ELSE IF c.ret
        THEN [skip |-> TRUE, log |-> c.log \o << <<"info", "skip_protected_content">> >>]
        ELSE [skip |-> FALSE, log |-> <<>>]

NoDetails == <<>>

\* The locals of an iteration that stopped before the classification.
NoLocals ==
    [classification |-> None, confidence |-> None, just_became_trusted |-> None,
     is_trusted |-> None, action |-> None]

\* the iteration asking the LLM before it looks at what was fetched
main_fetch_classify_first(id, fetched) ==
    LET fetch == <<Call("get_message_details", <<id>>), Post>>
    IN  IF fetched = NoDetails
        THEN [skip |-> TRUE, calls |-> fetch, log |-> <<>>]
        ELSE Bind(safety_checks(fetched[1]), LAMBDA safety :
                 [skip |-> safety.skip, calls |-> fetch, log |-> safety.log])

\* main, an iteration of "for msg in messages" up to the safety checks, given
\* what get_message_details answers: [skip, calls, log]; skip is "continue"
main_fetch(id, fetched) ==
    LET fetch == <<Call("get_message_details", <<id>>)>>
    IN  IF fetched = NoDetails
        THEN [skip |-> TRUE, calls |-> fetch, log |-> <<>>]
        ELSE Bind(safety_checks(fetched[1]), LAMBDA safety :
                 [skip |-> safety.skip, calls |-> fetch, log |-> safety.log])

\* the rest of the iteration recording the sender only when the action is not SKIP
main_process_confident(d, file, now, dry, id, details, response, outcome) ==
    Bind(classify_email(details.subject, details.snippet, details.sender, response),
         LAMBDA llm :
    Bind(determine_action(llm.ret[1], llm.ret[2]), LAMBDA action :
    Bind(IF action = S_SKIP
         THEN [data |-> d, disk |-> file, log |-> <<>>, ret |-> FALSE]
         ELSE update_sender(d, file, now, details.email_address, llm.ret[1], outcome),
         LAMBDA upd :
    LET classification == llm.ret[1]
        confidence == llm.ret[2]
        trusted == is_trusted(upd.data, details.email_address)
        exec == execute_action(dry, id, action, classification)
        filter == IF upd.ret
                  THEN create_filter_if_trusted(dry, details.email_address,
                                                classification, trusted)
                  ELSE [calls |-> <<>>, log |-> <<>>]
    IN  [data |-> upd.data,
         disk |-> upd.disk,
         calls |-> llm.calls \o exec.calls \o filter.calls,
         log |-> llm.log \o upd.log \o exec.log \o filter.log,
         locals |-> [classification |-> classification,
                     confidence |-> confidence,
                     just_became_trusted |-> upd.ret,
                     is_trusted |-> trusted,
                     action |-> action]])))

\* main, the rest of the iteration ("2. Classify" to "6. Filter Automation"),
\* given what the LLM and the file system answer: [data, disk, calls, log, locals]
main_process(d, file, now, dry, id, details, response, outcome) ==
    Bind(classify_email(details.subject, details.snippet, details.sender, response),
         LAMBDA llm :
    Bind(update_sender(d, file, now, details.email_address, llm.ret[1], outcome),
         LAMBDA upd :
    LET classification == llm.ret[1]
        confidence == llm.ret[2]
        trusted == is_trusted(upd.data, details.email_address)
        action == determine_action(classification, confidence)
        exec == execute_action(dry, id, action, classification)
        filter == IF upd.ret
                  THEN create_filter_if_trusted(dry, details.email_address,
                                                classification, trusted)
                  ELSE [calls |-> <<>>, log |-> <<>>]
    IN  [data |-> upd.data,
         disk |-> upd.disk,
         calls |-> llm.calls \o exec.calls \o filter.calls,
         log |-> llm.log \o upd.log \o exec.log \o filter.log,
         locals |-> [classification |-> classification,
                     confidence |-> confidence,
                     just_became_trusted |-> upd.ret,
                     is_trusted |-> trusted,
                     action |-> action]]))

\* What get_message_details can answer: None (no details), or one of these
\* messages (<<details>>).
D_news == Details(T_newsletter, N_news, A_news, T_check)
D_unknown == Details(T_offer, N_unknown, A_unknown, T_half)
D_google == Details(T_alert, N_google, A_accounts, T_signin)
D_billing == Details(T_invoice, N_billing, A_billing, T_attached)
MailboxDetails == {D_news, D_unknown, D_google, D_billing}
Mailbox == {NoDetails} \cup {<<d>> : d \in MailboxDetails}

\* What the LLM can answer in the run: every failure, and generations that
\* cover the three actions, a lower-case and an IMPORTANT classification and
\* each missing key.
LLMResponses ==
    LLMFailures
        \cup {Generation(Some(S_PROMOTION), Some(conf)) : conf \in {40, 60, 90}}
        \cup {Generation(Some(S_newsletter), Some(90)),
              Generation(Some(S_IMPORTANT), Some(90)),
              Generation(Absent, Some(90)),
              Generation(Some(S_PROMOTION), Absent)}

\* main up to the loop: the arguments are parsed, Storage() loads the file and
\* list_messages returns the ids of at most --limit messages.
Init ==
    /\ dry_run \in BOOLEAN
    /\ disk \in InitialFiles
    /\ data = _load_data(disk).data
    /\ log = _load_data(disk).log
    /\ clock = 0
    /\ calls = <<>>
    /\ result = [op |-> "__init__", args |-> <<>>, ret |-> None]
    /\ promotions = NoStore
    /\ \E n \in 0..MaxMessages : messages = [i \in 1..n |-> i]
    /\ idx = 0
    /\ labeled = {}
    /\ threads = NoThreads
    /\ pc = "loop"

\* The calls of an iteration that reach the mailbox to change it.
GmailMutations == {"add_label", "archive_message", "create_filter"}

\* GmailService.add_label / archive_message / create_filter: a call that raises
\* inside the adapter is caught there and logged; nothing is raised to main.
\* The error records of the calls of cs whose index is in failed, from i on.
RECURSIVE gmail_errors(_, _, _)
gmail_errors(cs, failed, i) ==
    IF i > Len(cs) THEN <<>>
    ELSE (IF i \in failed THEN << <<"error", "gmail_failed", cs[i].op>> >> ELSE <<>>)
             \o gmail_errors(cs, failed, i + 1)

\* the senders with a message that add_label or archive_message was called for
record_labeled(seen, sender_email, cs) ==
    IF \E i \in 1..Len(cs) : cs[i].op \in {"add_label", "archive_message"}
    THEN seen \cup {sender_email}
    ELSE seen

\* one iteration of the loop of main: the message is fetched and checked; unless
\* the iteration ends at a "continue", it is classified, recorded and acted upon
HandleMessage ==
    /\ pc = "loop"
    /\ idx < Len(messages)
    /\ \E fetched \in Mailbox :
       \E pre \in {main_fetch(messages[idx + 1], fetched)} :
          IF pre.skip
          THEN /\ calls' = pre.calls
               /\ log' = pre.log
               /\ result' = [op |-> "main_iteration",
                             args |-> <<messages[idx + 1], fetched, None>>,
                             ret |-> NoLocals]
               /\ UNCHANGED <<data, disk, clock, promotions, labeled>>
          ELSE \E response \in LLMResponses, outcome \in WriteOutcomes :
               \E r \in {main_process(data, disk, clock + 1, dry_run, messages[idx + 1],
                                      fetched[1], response, outcome)} :
               \E failed \in SUBSET {i \in 1..Len(r.calls) :
                                         r.calls[i].op \in GmailMutations} :
                  /\ data' = r.data
                  /\ disk' = r.disk
                  /\ calls' = pre.calls \o r.calls
                  /\ log' = pre.log \o r.log \o gmail_errors(r.calls, failed, 1)
                  /\ result' = [op |-> "main_iteration",
                                args |-> <<messages[idx + 1], fetched, response>>,
                                ret |-> r.locals]
                  /\ clock' = clock + 1
                  /\ promotions' = count_promotion(promotions, fetched[1].email_address,
                                                   r.locals.just_became_trusted)
                  /\ labeled' = record_labeled(labeled, fetched[1].email_address,
                                               r.calls)
    /\ idx' = idx + 1
    /\ UNCHANGED <<dry_run, messages, pc, threads>>

\* the loop is over: "Run complete."
RunComplete ==
    /\ pc = "loop"
    /\ idx = Len(messages)
    /\ pc' = "done"
    /\ calls' = <<>>
    /\ log' = << <<"info", "run_complete">> >>
    /\ result' = [op |-> "main", args |-> <<>>, ret |-> None]
    /\ UNCHANGED <<data, disk, clock, dry_run, promotions, messages, idx, labeled, threads>>

Next == HandleMessage \/ RunComplete

Spec == Init /\ [][Next]_vars

\* the position of main moves on: to the next message, or past the loop
LoopAdvance ==
    /\ pc = "loop"
    /\ \/ idx < Len(messages) /\ idx' = idx + 1 /\ pc' = pc
       \/ idx = Len(messages) /\ idx' = idx /\ pc' = "done"

\* main is one sequential loop in which every call returns: an iteration is
\* followed by the next one, and the end of the list by "Run complete."
SpecRun == Init /\ [][Next]_vars /\ WF_<<idx, pc>>(LoopAdvance)

----------------------------------------------------------------------------
(* Properties *)

Returned(op) == pc = "return" /\ result.op = op

HasAt(a) == \E i \in 1..Len(a) : a[i] = "@"
LastAt(a) == CHOOSE i \in 1..Len(a) : a[i] = "@" /\ \A j \in (i + 1)..Len(a) : a[j] # "@"

\* the text after the last '@', lower-cased, has a protected entry at some offset
ProtectedDomain(a) ==
    LET at == LastAt(a)
        n == Len(a) - at
    IN  \E e \in 1..Len(PROTECTED_DOMAINS) :
            LET p == PROTECTED_DOMAINS[e]
            IN  \E off \in 0..(n - Len(p)) :
                    \A k \in 1..Len(p) : LowerChar(a[at + off + k]) = p[k]

\* C2 as stated: is_safe_sender returns true iff the address has no '@' or its
\* lower-cased domain contains a protected entry.
C2_AsStated ==
    Returned("is_safe_sender") =>
        LET a == result.args[1]
        IN  result.ret = (~HasAt(a) \/ ProtectedDomain(a))

\* C2 amended: is_safe_sender returns true iff the address has an '@' and the
\* lower-cased text after its last '@' contains a protected entry as a substring;
\* an address without '@' (or empty) yields false, support@google.com and a
\* domain containing "edu" yield true, newsletter@marketing.com yields false.
C2_SafeSender ==
    Returned("is_safe_sender") =>
        LET a == result.args[1]
        IN  /\ result.ret = (HasAt(a) /\ ProtectedDomain(a))
            /\ a \in {A_google, A_accounts, A_upper, A_education, A_twoats2}
                   => result.ret = TRUE
            /\ a \in {A_marketing, A_unknown, A_localedu, A_twoats, S_empty}
                   => result.ret = FALSE

\* C2 witness: an address without '@' was checked and is not protected.
C2_Witness ==
    /\ Returned("is_safe_sender")
    /\ result.args[1] = A_unknown
    /\ result.ret = FALSE

\* C5: determine_action gives SKIP for IMPORTANT at every confidence, otherwise
\* ARCHIVE from 0.80 up, REVIEW from 0.55 up to below 0.80, SKIP below 0.55, and
\* changes no state.
C5_DetermineAction ==
    Returned("determine_action") =>
        LET c == result.args[1]
            conf == result.args[2]
        IN  /\ c = S_IMPORTANT => result.ret = S_SKIP
            /\ c # S_IMPORTANT /\ conf >= 80 => result.ret = S_ARCHIVE
            /\ c # S_IMPORTANT /\ conf >= 55 /\ conf < 80 => result.ret = S_REVIEW
            /\ c # S_IMPORTANT /\ conf < 55 => result.ret = S_SKIP
            /\ data = NoStore /\ calls = <<>> /\ log = <<>>

\* C5 witness: a newsletter at exactly 0.80 was routed to ARCHIVE.
C5_Witness ==
    /\ Returned("determine_action")
    /\ result.args = <<S_NEWSLETTER, 80>>
    /\ result.ret = S_ARCHIVE

Trusted(d, s) == s \in DOMAIN d /\ d[s].trusted_marketing_source

\* a step that is a call of update_sender
UpdateStep == clock' = clock + 1 /\ result'.op = "update_sender"

\* what C3 asks of every step
C3_Step ==
    /\ \A s \in DOMAIN data : Trusted(data, s) => Trusted(data', s)
    /\ UpdateStep =>
          LET s == result'.args[1]
          IN  /\ result'.ret = (~Trusted(data, s) /\ Trusted(data', s))
              /\ Trusted(data, s) => result'.ret = FALSE
    /\ \A s \in DOMAIN promotions' : promotions'[s] <= 1

\* C3: update_sender returns true iff the call flips the sender's flag from false
\* to true; it returns true at most once per sender; a trusted sender stays
\* trusted and never gets true again.
C3_AtMostOnce == [][C3_Step]_vars

\* C3 witness: a sender that was promoted once got a further update, which
\* returned false.
C3_Witness ==
    /\ result.op = "update_sender"
    /\ result.ret = FALSE
    /\ Trusted(data, result.args[1])
    /\ promotions[result.args[1]] = 1

Count(d, s, c) ==
    IF s \in DOMAIN d /\ c \in DOMAIN d[s].classifications
    THEN d[s].classifications[c] ELSE 0

MarketingSum(d, s) ==
    Count(d, s, S_NEWSLETTER) + Count(d, s, S_PROMOTION)
        + Count(d, s, S_COURSE) + Count(d, s, S_OUTREACH)

IsMarketing(c) == c \in {S_NEWSLETTER, S_PROMOTION, S_COURSE, S_OUTREACH}

\* C4: from an empty store, a sender is trusted iff its counts over NEWSLETTER,
\* PROMOTION, COURSE and OUTREACH sum to at least 3; update_sender returns true
\* exactly for the marketing update that brings the sum to 3, and is_trusted
\* answers by the same sum.
C4_TrustIffThreshold ==
    /\ \A s \in DOMAIN data : data[s].trusted_marketing_source <=> MarketingSum(data, s) >= 3
    /\ result.op = "update_sender" =>
          result.ret = (IsMarketing(result.args[2]) /\ MarketingSum(data, result.args[1]) = 3)
    /\ result.op = "is_trusted" =>
          result.ret = (MarketingSum(data, result.args[1]) >= 3)

\* C4 witness: a sender promoted by a mix of marketing labels got a fourth
\* marketing update, which returned false and left it trusted.
C4_Witness ==
    /\ result.op = "update_sender"
    /\ result.ret = FALSE
    /\ IsMarketing(result.args[2])
    /\ MarketingSum(data, A_brand) = 4
    /\ Count(data, A_brand, S_NEWSLETTER) >= 1
    /\ Count(data, A_brand, S_OUTREACH) >= 1
    /\ Trusted(data, A_brand)

SaveFailed == << <<"error", "save_failed">> >>

\* what every call of update_sender does in memory, whether the write succeeds or not
Advanced ==
    LET s == result'.args[1]
        c == result'.args[2]
    IN  /\ Count(data', s, c) = Count(data, s, c) + 1
        /\ data'[s].last_seen = <<clock'>>
        /\ Trusted(data', s) = (Trusted(data, s) \/ (IsMarketing(c) /\ MarketingSum(data', s) >= 3))
        /\ result'.ret = (~Trusted(data, s) /\ Trusted(data', s))

Persisted == disk' = <<"json", json_dump(data')>> /\ log' = <<>>

\* C10 as stated: a failed write leaves the durable content as it was.
C10_AsStated ==
    [][UpdateStep /\ log' = SaveFailed /\ disk[1] = "json" => disk' = disk]_vars

\* what C10, amended, asks of every step
C10_Step ==
    /\ UpdateStep =>
          /\ Advanced
          /\ \/ Persisted
             \/ /\ log' = SaveFailed
                /\ disk' = disk \/ disk' = <<"corrupt">>
                /\ disk' # <<"json", json_dump(data')>>
    /\ result'.op = "is_trusted" =>
          result'.ret = Trusted(data', result'.args[1]) /\ data' = data /\ disk' = disk

\* C10 amended: a failed write is logged and non-fatal; the count, last_seen and
\* promotion stay in memory, the call returns its normal result and later calls
\* see the advanced state; the durable content is either what it was (the file
\* could not be opened) or a truncated text that no longer parses (the write
\* failed after the file was opened), never the new state.
C10_WriteFailure == [][C10_Step]_vars

\* C10 witness: the promoting update failed to persist, it returned true, the
\* sender is trusted in memory and the file still holds the earlier content.
C10_Witness ==
    /\ result.op = "update_sender"
    /\ result.ret = TRUE
    /\ log = SaveFailed
    /\ Trusted(data, A_brand)
    /\ disk[1] = "json"
    /\ disk # <<"json", json_dump(data)>>

\* the label of the claim: "AUTO/", the first character upper-cased, the rest lower-cased
IsLabelOf(label, c) ==
    /\ Len(label) = 5 + Len(c)
    /\ SubSeq(label, 1, 5) = <<"A", "U", "T", "O", "/">>
    /\ \A i \in 1..Len(c) :
          label[5 + i] = (IF i = 1 THEN UpperChar(c[i]) ELSE LowerChar(c[i]))
    /\ c = S_NEWSLETTER => label = L_Newsletter
    /\ c = S_PROMOTION => label = L_Promotion

Mutating(call) == call.op \in {"add_label", "archive_message", "create_filter"}

\* C6: with dry-run off, execute_action issues add_label then archive_message for
\* ARCHIVE, add_label alone for REVIEW and nothing for SKIP, never create_filter,
\* with the label AUTO/ plus the capitalized classification.
C6_ExecuteAction ==
    (result.op = "execute_action" /\ ~dry_run) =>
        LET m == result.args[1]
            a == result.args[2]
            c == result.args[3]
        IN  /\ a = S_ARCHIVE =>
                  /\ Len(calls) = 2
                  /\ calls[1].op = "add_label" /\ calls[1].args[1] = m
                  /\ IsLabelOf(calls[1].args[2], c)
                  /\ calls[2] = Call("archive_message", <<m>>)
            /\ a = S_REVIEW =>
                  /\ Len(calls) = 1
                  /\ calls[1].op = "add_label" /\ calls[1].args[1] = m
                  /\ IsLabelOf(calls[1].args[2], c)
            /\ a = S_SKIP => calls = <<>>
            /\ \A i \in 1..Len(calls) : calls[i].op # "create_filter"

\* C6 witness: a newsletter was archived with the label AUTO/Newsletter.
C6_Witness ==
    /\ result.op = "execute_action" /\ ~dry_run
    /\ result.args[2] = S_ARCHIVE
    /\ calls = <<Call("add_label", <<result.args[1], L_Newsletter>>),
                 Call("archive_message", <<result.args[1]>>)>>

\* C7: in dry-run mode no add_label, archive_message or create_filter call is
\* ever made; each would-be mutation is logged instead.
C7_DryRun ==
    dry_run =>
        /\ \A i \in 1..Len(calls) : ~Mutating(calls[i])
        /\ result.op = "execute_action" /\ result.args[2] \in {S_ARCHIVE, S_REVIEW} =>
              /\ log[1][2] = "dry_run_label"
              /\ IsLabelOf(log[1][3], result.args[3])
              /\ Len(log) = (IF result.args[2] = S_ARCHIVE THEN 2 ELSE 1)
              /\ result.args[2] = S_ARCHIVE => log[2][2] = "dry_run_archive"
        /\ (/\ result.op = "create_filter_if_trusted"
            /\ result.args[3]
            /\ IsMarketing(result.args[2])) =>
              /\ Len(log) = 1
              /\ log[1][2] = "dry_run_filter"
              /\ log[1][3] = result.args[1]

\* C7 witness: in dry-run mode a filter for a trusted marketing sender was only logged.
C7_Witness ==
    /\ dry_run
    /\ result.op = "create_filter_if_trusted"
    /\ result.args = <<A_brand, S_PROMOTION, TRUE>>
    /\ calls = <<>>
    /\ log = << <<"info", "dry_run_filter", A_brand, L_Promotion>> >>

\* C8: with dry-run off, create_filter_if_trusted issues exactly one
\* create_filter(sender, label) when the sender is trusted and the classification
\* is a marketing one, and nothing otherwise; the label is the one execute_action
\* applies for that classification.
C8_CreateFilter ==
    (result.op = "create_filter_if_trusted" /\ ~dry_run) =>
        LET s == result.args[1]
            c == result.args[2]
            t == result.args[3]
        IN  IF t /\ IsMarketing(c)
            THEN /\ Len(calls) = 1
                 /\ calls[1].op = "create_filter"
                 /\ calls[1].args[1] = s
                 /\ IsLabelOf(calls[1].args[2], c)
                 /\ calls[1].args[2] = execute_action(FALSE, 1, S_REVIEW, c).calls[1].args[2]
            ELSE calls = <<>>

\* C8 witness: a filter to AUTO/Promotion was requested for a trusted promotion sender.
C8_Witness ==
    /\ result.op = "create_filter_if_trusted" /\ ~dry_run
    /\ calls = <<Call("create_filter", <<A_brand, L_Promotion>>)>>

----------------------------------------------------------------------------
(* Properties of the run loop *)

\* a step that is one iteration of the loop of main
IterationStep == idx' = idx + 1 /\ result'.op = "main_iteration"

FetchOnly(id) == <<Call("get_message_details", <<id>>)>>

\* the messages of the mailbox for which one of the two checks returns True
ProtectedMessages ==
    {d \in MailboxDetails : \/ is_safe_sender(d.email_address).ret
                            \/ is_safe_content(d.subject, d.snippet).ret}

\* what C1 asks of every step
C1_Step ==
    (/\ IterationStep
     /\ result'.args[2] # NoDetails
     /\ result'.args[2][1] \in ProtectedMessages)
    => /\ calls' = FetchOnly(result'.args[1])
       /\ result'.ret = NoLocals
       /\ data' = data
       /\ disk' = disk
       /\ clock' = clock
       /\ promotions' = promotions

\* C1: in the run loop, a message whose sender is_safe_sender accepts or whose
\* subject and snippet is_safe_content accepts is checked before anything else
\* is called: beyond the fetch of its details it causes no classification call,
\* no update_sender, no add_label, archive_message or create_filter, and the
\* store (memory and file) is as it was.
C1_SafetyFirst == [][C1_Step]_vars

\* C1 witness: after another sender's message was recorded, a message with a
\* protected keyword from an unprotected sender was skipped and left no trace.
C1_Witness ==
    /\ result.op = "main_iteration"
    /\ result.args[2] = <<D_billing>>
    /\ ~is_safe_sender(D_billing.email_address).ret
    /\ calls = FetchOnly(result.args[1])
    /\ data # NoStore
    /\ A_billing \notin DOMAIN data

Posts(cs) == Cardinality({i \in 1..Len(cs) : cs[i].op = "requests.post"})

\* what C9 asks of every step
C9_Step ==
    (IterationStep /\ result'.args[3] \in LLMFailures) =>
        LET s == result'.args[2][1].email_address
        IN  /\ result'.ret.classification = S_IMPORTANT
            /\ result'.ret.confidence = 0
            /\ result'.ret.action = S_SKIP
            /\ Posts(calls') = 1
            /\ \A i \in 1..Len(calls') : ~Mutating(calls'[i])
            /\ result'.ret.just_became_trusted = FALSE
            /\ Trusted(data', s) = Trusted(data, s)
            /\ promotions'[s] = (IF s \in DOMAIN promotions THEN promotions[s] ELSE 0)

\* C9: when the classification call fails, classify_email answers (IMPORTANT, 0.0)
\* after one attempt; the message routes to SKIP, causes no add_label,
\* archive_message or create_filter, and does not promote its sender.
C9_LLMFailure == [][C9_Step]_vars

\* C9 witness: the classification failed for a sender one marketing message
\* short of the threshold, which stayed untrusted.
C9_Witness ==
    /\ result.op = "main_iteration"
    /\ result.args[3] \in LLMFailures
    /\ MarketingSum(data, A_news) = 2
    /\ Count(data, A_news, S_IMPORTANT) = 1
    /\ ~Trusted(data, A_news)

----------------------------------------------------------------------------
(* Persistence of the store *)

\* the store a new Storage() would hold, were it constructed from this file
Reloaded(file) == _load_data(file).data

\* the two stores hold the same senders with the same four fields
SameStore(d, e) ==
    /\ DOMAIN d = DOMAIN e
    /\ \A s \in DOMAIN d :
          /\ d[s].domain = e[s].domain
          /\ DOMAIN d[s].classifications = DOMAIN e[s].classifications
          /\ \A c \in DOMAIN d[s].classifications :
                d[s].classifications[c] = e[s].classifications[c]
          /\ d[s].last_seen = e[s].last_seen
          /\ d[s].trusted_marketing_source = e[s].trusted_marketing_source

\* what C11 asks of every step
C11_Step ==
    UpdateStep /\ log' = <<>> =>
        /\ disk'[1] = "json"
        /\ _load_data(disk').log = <<>>
        /\ SameStore(Reloaded(disk'), data')
        /\ \A s \in DOMAIN data' : Trusted(data', s) => Trusted(Reloaded(disk'), s)

\* C11: every update_sender call writes the whole store before it returns:
\* when the write succeeds, the file read back at the return gives the store in
\* memory, sender by sender, with the same domain, counts, last_seen and trust
\* flag; a sender trusted in memory is trusted after a reload.
C11_WriteThrough == [][C11_Step]_vars

\* C11 witness: two senders are in the store, one of them trusted, the last
\* update was written, and the file read back holds both with the flag set.
C11_Witness ==
    /\ result.op = "update_sender"
    /\ log = <<>>
    /\ DOMAIN data = {A_brand, A_upper}
    /\ Trusted(data, A_brand)
    /\ disk[1] = "json"
    /\ Trusted(Reloaded(disk), A_brand)
    /\ ~Trusted(Reloaded(disk), A_upper)
    /\ Reloaded(disk)[A_upper].domain = <<"m", "i", "t", ".", "e", "d", "u">>

----------------------------------------------------------------------------
(* The content check *)

\* some protected keyword stands in the text at some offset, letter case aside
HasKeyword(text) ==
    \E n \in 1..Len(PROTECTED_KEYWORDS) :
        LET k == PROTECTED_KEYWORDS[n]
        IN  \E off \in 0..(Len(text) - Len(k)) :
                \A j \in 1..Len(k) : LowerChar(text[off + j]) = k[j]

\* C12 as stated: is_safe_content returns true iff the subject directly followed
\* by the snippet, case-folded, contains a protected keyword.
C12_AsStated ==
    Returned("is_safe_content") =>
        (result.ret <=> HasKeyword(result.args[1] \o result.args[2]))

\* C12 amended: is_safe_content returns true iff the lower-cased text made of
\* the subject, one space and the snippet contains a protected keyword as a
\* substring; "Your Invoice" matches "invoice", "Weekly Newsletter" with "Check
\* this out" yields false, and the call changes nothing.
C12_SafeContent ==
    Returned("is_safe_content") =>
        /\ result.ret <=> HasKeyword(result.args[1] \o <<" ">> \o result.args[2])
        /\ result.args[1] = T_invoice => result.ret = TRUE
        /\ result.args = <<T_newsletter, T_check>> => result.ret = FALSE
        /\ data = NoStore /\ calls = <<>>

\* C12 witness: "Job Offer" and "Letter enclosed" hold no keyword each, and the
\* check returned true for the pair ("offer letter" across the space).
C12_Witness ==
    /\ Returned("is_safe_content")
    /\ result.args = <<T_joboffer, T_letter>>
    /\ ~HasKeyword(T_joboffer) /\ ~HasKeyword(T_letter)
    /\ result.ret = TRUE

----------------------------------------------------------------------------
(* Two update_sender calls at once *)

\* how many of the calls returned true
ReturnedTrue == IF A_brand \in DOMAIN promotions THEN promotions[A_brand] ELSE 0

AllReturned == \A t \in Callers : threads[t].pc = "returned"

\* some caller read the flag while another was between its own read of the flag
\* and its return
Overlap == \E t \in Callers : threads[t].overlapped

\* C13: when both of two update_sender calls on one sender return true, the two
\* read-modify-write sequences (read the previous flag, set the flag, return)
\* overlapped and both calls had read the previous flag as false; when each
\* sequence runs without the other inside it, at most one call returns true.
C13_Interleaving ==
    /\ ReturnedTrue <= 2
    /\ ReturnedTrue = 2 =>
          /\ Overlap
          /\ \A t \in Callers : threads[t].pc = "returned" /\ ~threads[t].was_trusted
    /\ ~Overlap => ReturnedTrue <= 1

\* C13 witness: both calls have returned, both had read the flag as false and
\* both returned true for the same sender.
C13_Witness ==
    /\ pc = "threads"
    /\ AllReturned
    /\ \A t \in Callers : ~threads[t].was_trusted
    /\ ReturnedTrue = 2
    /\ Trusted(data, A_brand)

----------------------------------------------------------------------------
(* What a call changes in the store *)

\* the address from its last '@' on, or all of it when it has none, lower-cased
DomainOf(a) ==
    LET from == IF HasAt(a) THEN LastAt(a) ELSE 0
    IN  [i \in 1..(Len(a) - from) |-> LowerChar(a[from + i])]

AllClasses == {S_IMPORTANT, S_NEWSLETTER, S_PROMOTION, S_COURSE, S_OUTREACH}

\* what C14 asks of every step
C14_Step ==
    /\ DOMAIN data \subseteq DOMAIN data'
    /\ \A s \in DOMAIN data : \A c \in AllClasses : Count(data', s, c) >= Count(data, s, c)
    /\ UpdateStep =>
          LET s == result'.args[1]
              c == result'.args[2]
          IN  /\ DOMAIN data' = DOMAIN data \cup {s}
              /\ s \notin DOMAIN data =>
                    /\ data'[s].domain = DomainOf(s)
                    /\ DOMAIN data'[s].classifications = {c}
                    /\ ~Trusted(data', s)
              /\ Count(data', s, c) = Count(data, s, c) + 1
              /\ DOMAIN data'[s].classifications \subseteq AllClasses
              /\ \A o \in AllClasses \ {c} : Count(data', s, o) = Count(data, s, o)
              /\ s \in DOMAIN data => data'[s].domain = data[s].domain
              /\ \A o \in DOMAIN data \ {s} : data'[o] = data[o]
    /\ result'.op \in {"is_trusted", "get_sender_data"} =>
          /\ data' = data /\ disk' = disk
          /\ result'.args[1] \notin DOMAIN data =>
                result'.ret = (IF result'.op = "is_trusted" THEN FALSE ELSE None)

\* C14: update_sender creates the entry of a new sender (no counts, not
\* trusted, domain = the lower-cased text after the last '@') and adds exactly 1
\* to that sender's count of the classification; its other counts, its domain
\* and every other sender's entry stay as they were; no count decreases and no
\* entry disappears; is_trusted and get_sender_data change nothing and answer
\* False and None for a sender never seen.
C14_Frame == [][C14_Step]_vars

\* C14 witness: Dean@MIT.EDU was just recorded for the first time, with domain
\* "mit.edu" and one promotion, next to promo@brand.com, whose two counts stay.
C14_Witness ==
    /\ result.op = "update_sender"
    /\ result.args = <<A_upper, S_PROMOTION>>
    /\ data[A_upper].domain = <<"m", "i", "t", ".", "e", "d", "u">>
    /\ Count(data, A_upper, S_PROMOTION) = 1
    /\ Count(data, A_brand, S_NEWSLETTER) = 1
    /\ Count(data, A_brand, S_IMPORTANT) = 1
    /\ A_news \notin DOMAIN data

----------------------------------------------------------------------------
(* The run as a whole *)

\* the error records of a step: failures caught and logged where they occurred
Errors(l) == {i \in 1..Len(l) : l[i][1] = "error"}

\* what C15 asks of every step
C15_Step ==
    /\ messages' = messages
    /\ idx' \in {idx, idx + 1}
    /\ idx' = idx + 1 =>
          /\ idx < Len(messages)
          /\ result'.op = "main_iteration"
          /\ result'.args[1] = messages[idx + 1]
          /\ calls'[1] = Call("get_message_details", <<messages[idx + 1]>>)
          /\ pc' = "loop"
    /\ IterationStep /\ result'.args[2] = NoDetails =>
          /\ calls' = <<Call("get_message_details", <<messages[idx + 1]>>)>>
          /\ data' = data /\ disk' = disk /\ clock' = clock
          /\ promotions' = promotions /\ labeled' = labeled
    /\ pc' = "done" => idx' = Len(messages)
    /\ pc = "done" => pc' = "done"

\* C15: the run takes the messages one at a time in the order of the list; a
\* message without details costs the fetch and nothing else; whatever fails
\* (details, classification, label, archive, filter, write of the store), the
\* next message is taken, and the run reaches "Run complete." with every
\* message handled.
C15_RunCompletes == [][C15_Step]_vars /\ <>(pc = "done" /\ idx = Len(messages))

\* C15 witness: the run is complete after three messages, the last of which
\* had a failed classification; a write of the store failed on the way, and a
\* sender was labeled.
C15_Witness ==
    /\ pc = "done"
    /\ idx = 3
    /\ disk = <<"corrupt">>
    /\ A_unknown \in labeled
    /\ A_news \in DOMAIN data /\ Count(data, A_news, S_IMPORTANT) = 1

----------------------------------------------------------------------------
(* Filters created by the run *)

\* the create_filter calls among the calls of a step
Filters(cs) == {i \in 1..Len(cs) : cs[i].op = "create_filter"}

\* the iteration went past the safety checks: it classified the message
Classified(r) == r.ret # NoLocals

\* what C16 asks of every step
C16_Step ==
    IterationStep /\ ~dry_run =>
        /\ ~Classified(result') => Filters(calls') = {}
        /\ Classified(result') =>
              LET s == result'.args[2][1].email_address
                  c == result'.ret.classification
              IN  /\ Cardinality(Filters(calls')) =
                        (IF result'.ret.just_became_trusted THEN 1 ELSE 0)
                  /\ Trusted(data, s) => Filters(calls') = {}
                  /\ result'.ret.just_became_trusted =>
                        /\ IsMarketing(c)
                        /\ result'.ret.is_trusted
                        /\ ~Trusted(data, s) /\ Trusted(data', s)
                        /\ \A i \in Filters(calls') :
                              /\ calls'[i].args[1] = s
                              /\ IsLabelOf(calls'[i].args[2], c)
                        /\ promotions'[s] = 1
        /\ \A s \in DOMAIN promotions' : promotions'[s] <= 1

\* C16: with dry-run off and the store empty at the start, an iteration issues
\* create_filter exactly when its update_sender call returned true, once, for
\* that sender; the classification is then a marketing one and is_trusted is
\* true, so the guard of create_filter_if_trusted lets it through; update_sender
\* returns true at most once per sender, and a message of a sender already
\* trusted issues no create_filter.
C16_FilterOnce == [][C16_Step]_vars

\* C16 witness: a fourth marketing message of a sender promoted by the third
\* was handled with dry-run off: it was labeled and no filter was requested.
C16_Witness ==
    /\ ~dry_run
    /\ result.op = "main_iteration"
    /\ Classified(result)
    /\ result.args[2][1].email_address = A_news
    /\ MarketingSum(data, A_news) = 4
    /\ Trusted(data, A_news)
    /\ promotions[A_news] = 1
    /\ result.ret.just_became_trusted = FALSE
    /\ Filters(calls) = {}
    /\ \E i \in 1..Len(calls) : calls[i].op = "add_label"

----------------------------------------------------------------------------
(* Reputation and confidence *)

\* what C17 asks of every step
C17_Step ==
    IterationStep /\ Classified(result') =>
        LET s == result'.args[2][1].email_address
            r == result'.ret
        IN  /\ Count(data', s, r.classification) = Count(data, s, r.classification) + 1
            /\ r.just_became_trusted = (~Trusted(data, s) /\ Trusted(data', s))
            /\ r.just_became_trusted =
                  (/\ ~Trusted(data, s)
                   /\ IsMarketing(r.classification)
                   /\ MarketingSum(data', s) >= 3)
            /\ r.action = S_SKIP =>
                  /\ \A i \in 1..Len(calls') :
                        calls'[i].op \notin {"add_label", "archive_message"}
                  /\ labeled' = labeled
                  /\ ~dry_run =>
                        Cardinality(Filters(calls')) =
                            (IF r.just_became_trusted THEN 1 ELSE 0)

\* C17: every message that passes the safety checks adds 1 to its sender's
\* count of the classification returned, whatever the confidence and the action;
\* the promotion depends on the counts alone, and an iteration whose action is
\* SKIP still requests the filter when its update promoted the sender.
C17_IgnoresConfidence == [][C17_Step]_vars

\* C17 witness: with dry-run off a sender was promoted and a filter requested
\* for it by a message classified at 0.40, whose action is SKIP; no message of
\* that sender was ever labeled or archived.
C17_Witness ==
    /\ ~dry_run
    /\ result.op = "main_iteration"
    /\ Classified(result)
    /\ result.ret.action = S_SKIP
    /\ result.ret.confidence = 40
    /\ result.ret.just_became_trusted
    /\ Trusted(data, A_news)
    /\ \E i \in Filters(calls) : calls[i].args[1] = A_news
    /\ A_news \notin labeled

----------------------------------------------------------------------------
(* Restarts *)

\* a step in which one process ends and the next constructs its Storage
RestartStep == pc \in {"store", "exited"} /\ result'.op = "__init__"

\* what C18 asks of every step
C18_Step ==
    /\ RestartStep =>
          /\ disk' = disk
          /\ \A s \in StoreSenders :
                Trusted(data', s) <=> (disk[1] = "json" /\ Trusted(Reloaded(disk), s))
          /\ disk[1] = "json" /\ pc' = "store" => SameStore(data', Reloaded(disk))
          /\ disk[1] \in {"missing", "corrupt"} => data' = NoStore /\ pc' = "store"
          /\ result.op = "update_sender" /\ result.ret /\ log = SaveFailed =>
                ~Trusted(data', result.args[1])
    /\ UpdateStep /\ log' = <<>> =>
          /\ disk'[1] = "json"
          /\ SameStore(Reloaded(disk'), data')
    /\ \A s \in DOMAIN promotions' : promotions'[s] <= 2

\* C18 as stated: after a restart the file decides who is trusted: a promotion
\* whose write failed is lost and can be returned a second time; a load that
\* fails, the file being missing or unparsable, gives an empty store and never
\* ends the process; the first write that succeeds puts the store in memory
\* in the place of the file's content.
C18_AsStated == [](pc # "exited") /\ [][C18_Step]_vars

\* C18 as the code has it: the same, but for the one start that ends the
\* process at once, with nothing loaded: the bytes of the file are not UTF-8.
C18_DurableDecides ==
    [](pc = "exited" => disk = <<"undecodable">> /\ data = NoStore) /\ [][C18_Step]_vars

\* C18, the start that fails: the process ended at the construction of its
\* Storage; the file is there, it cannot be read as text, nothing was loaded
C18_Aborted ==
    /\ pc = "exited"
    /\ disk = <<"undecodable">>
    /\ log = << <<"error", "fatal">> >>

\* C18 witness: a sender was promoted, the write of that update failed, the
\* process was restarted on the earlier content, and a later update promoted
\* the sender a second time
C18_SecondPromotion ==
    /\ pc = "store"
    /\ result.op = "update_sender"
    /\ result.ret = TRUE
    /\ A_brand \in DOMAIN promotions /\ promotions[A_brand] = 2
    /\ Trusted(data, A_brand)

\* C18, the fresh content: the write of a promotion failed half-way, the next
\* process started on a file that does not parse and wrote its first update:
\* the file now holds the one sender recorded since; the promoted one is gone
C18_FreshContent ==
    /\ pc = "store"
    /\ clock = 4
    /\ result.op = "update_sender"
    /\ log = <<>>
    /\ DOMAIN data = {A_upper}
    /\ DOMAIN Reloaded(disk) = {A_upper}
    /\ A_brand \in DOMAIN promotions /\ promotions[A_brand] = 1

====
